---- MODULE Spec2Model ----
(***************************************************************************)
(* Library Inventory Manager (src/code.py): the Book record, the           *)
(* LibraryInventory catalog with its JSON persistence, and the menu        *)
(* operations of main() that drive them.                                   *)
(*                                                                         *)
(* Python strings are sequences of one-character strings, so that          *)
(* str.strip, str.lower and the `in` substring test are computed.          *)
(***************************************************************************)
EXTENDS Integers, Sequences, FiniteSets

VARIABLES
    pc,      \* "start" | "menu" | "exited" | "crashed": position of the process
    books,   \* LibraryInventory.books: the list of Book objects
    store,   \* the content of LibraryInventory.data_file on disk
    out,     \* the outcome messages printed by the last operation, in order
    result,  \* the value returned by the last search / shown by the last listing
    lastOp,  \* the operation that produced this state
    arg,     \* the string argument (identifier or title) of the last operation
    saved,   \* history: the list that the last save_to_file wrote completely
    line,    \* the outcome of the last input() call
    choice,  \* the value get_menu_choice last returned, 0 before the first
    typed,   \* the values the running handler has read so far
    eof,     \* the input stream is exhausted: every further input() raises
    saves    \* the number of save_to_file calls of this run

\* the prompt-level state
cli == <<line, choice, typed, eof, saves>>

vars == <<pc, books, store, out, result, lastOp, arg, saved, line, choice, typed, eof, saves>>

\* ------------------------------------------------------------------ bounds
MaxBooks == 3

\* ------------------------------------------------------------- str helpers
UpperLetters == <<"A","B","C","D","E","F","G","H","I","J","K","L","M",
                  "N","O","P","Q","R","S","T","U","V","W","X","Y","Z">>

LowerLetters == <<"a","b","c","d","e","f","g","h","i","j","k","l","m",
                  "n","o","p","q","r","s","t","u","v","w","x","y","z">>

LowerChar(c) ==
    IF \E k \in 1..Len(UpperLetters) : UpperLetters[k] = c
    THEN LowerLetters[CHOOSE k \in 1..Len(UpperLetters) : UpperLetters[k] = c]
    ELSE c

\* str.lower()
Lower(s) == [k \in 1..Len(s) |-> LowerChar(s[k])]

IsSpace(c) == c \in {" ", "\t", "\n"}

RECURSIVE LStrip(_)
LStrip(s) == IF s # <<>> /\ IsSpace(Head(s)) THEN LStrip(Tail(s)) ELSE s

RECURSIVE RStrip(_)
RStrip(s) ==
    IF s # <<>> /\ IsSpace(s[Len(s)]) THEN RStrip(SubSeq(s, 1, Len(s) - 1)) ELSE s

\* str.strip()
Strip(s) == RStrip(LStrip(s))

\* needle in hay
Contains(hay, needle) ==
    \E k \in 0..(Len(hay) - Len(needle)) :
        SubSeq(hay, k + 1, k + Len(needle)) = needle

AVAILABLE == <<"a","v","a","i","l","a","b","l","e">>

ISSUED == <<"i","s","s","u","e","d">>

\* ---------------------------------------------------------------- Book
\* Book.__init__
Book_init_raw(title, author, isbn, status) ==
    [title  |-> Strip(title),
     author |-> Strip(author),
     isbn   |-> Strip(isbn),
     status |-> Lower(status)]

Book_init_exact(title, author, isbn, status) ==
    LET st == IF status \notin {AVAILABLE, ISSUED} THEN AVAILABLE ELSE status
    IN  [title  |-> Strip(title),
         author |-> Strip(author),
         isbn   |-> Strip(isbn),
         status |-> Lower(st)]

Book_init(title, author, isbn, status) ==
    LET st == IF Lower(status) \notin {AVAILABLE, ISSUED} THEN AVAILABLE ELSE status
    IN  [title  |-> Strip(title),
         author |-> Strip(author),
         isbn   |-> Strip(isbn),
         status |-> Lower(st)]

\* JSON values of an entry's fields: a string, null, or the key is absent
JStr(s) == [t |-> "str", s |-> s]

JNull == [t |-> "null", s |-> <<>>]

JMissing == [t |-> "missing", s |-> <<>>]

\* dict.get(key, default)
DictGet(d, key, default) == IF d[key].t = "missing" THEN default ELSE d[key]

\* Book.to_dict
to_dict_no_status(b) ==
    [title  |-> JStr(b.title),
     author |-> JStr(b.author),
     isbn   |-> JStr(b.isbn),
     status |-> JMissing,
     extra  |-> FALSE]

to_dict(b) ==
    [title  |-> JStr(b.title),
     author |-> JStr(b.author),
     isbn   |-> JStr(b.isbn),
     status |-> JStr(b.status),
     extra  |-> FALSE]

\* Book.from_dict raises (AttributeError) when a present field is not a string
from_dict_raises_missing(d) ==
    \E key \in {"title", "author", "isbn", "status"} : d[key].t \in {"null", "missing"}

from_dict_raises(d) ==
    \E key \in {"title", "author", "isbn", "status"} : d[key].t = "null"

\* Book.from_dict
from_dict(d) ==
    Book_init(DictGet(d, "title",  JStr(<<>>)).s,
              DictGet(d, "author", JStr(<<>>)).s,
              DictGet(d, "isbn",   JStr(<<>>)).s,
              DictGet(d, "status", JStr(AVAILABLE)).s)

\* Book.issue: the returned flag and the book afterwards
Book_issue_always(b) == [ok |-> TRUE, book |-> [b EXCEPT !.status = ISSUED]]

Book_issue(b) ==
    IF b.status = ISSUED
    THEN [ok |-> FALSE, book |-> b]
    ELSE [ok |-> TRUE,  book |-> [b EXCEPT !.status = ISSUED]]

\* Book.return_book
Book_return_book(b) ==
    IF b.status = AVAILABLE
    THEN [ok |-> FALSE, book |-> b]
    ELSE [ok |-> TRUE,  book |-> [b EXCEPT !.status = AVAILABLE]]

\* Book.is_available
is_available(b) == b.status = AVAILABLE

\* ------------------------------------------------------ LibraryInventory
\* search_by_isbn: the position of the Book it returns, 0 for None
search_by_isbn(bs, isbn) ==
    IF \E k \in 1..Len(bs) : bs[k].isbn = isbn
    THEN CHOOSE k \in 1..Len(bs) :
            /\ bs[k].isbn = isbn
            /\ \A j \in 1..(k - 1) : bs[j].isbn # isbn
    ELSE 0

\* search_by_title
RECURSIVE search_by_title_exact(_, _)
search_by_title_exact(bs, title) ==
    IF bs = <<>> THEN <<>>
    ELSE (IF Contains(Head(bs).title, Lower(title)) THEN <<Head(bs)>> ELSE <<>>)
         \o search_by_title_exact(Tail(bs), title)

RECURSIVE search_by_title(_, _)
search_by_title(bs, title) ==
    IF bs = <<>> THEN <<>>
    ELSE (IF Contains(Lower(Head(bs).title), Lower(title)) THEN <<Head(bs)>> ELSE <<>>)
         \o search_by_title(Tail(bs), title)

\* add_book: the list afterwards
add_book_unchecked(bs, book) == Append(bs, book)

add_book_front(bs, book) ==
    IF search_by_isbn(bs, book.isbn) # 0 THEN bs ELSE <<book>> \o bs

add_book(bs, book) ==
    IF search_by_isbn(bs, book.isbn) # 0 THEN bs ELSE Append(bs, book)

\* issue_book: the printed outcome and the list afterwards
issue_book_last(bs, isbn) ==
    LET hits == {j \in 1..Len(bs) : bs[j].isbn = isbn}
        k == IF hits = {} THEN 0 ELSE CHOOSE j \in hits : \A h \in hits : h <= j
    IN  IF k = 0
        THEN [out |-> <<"not_found">>, books |-> bs]
        ELSE LET r == Book_issue(bs[k])
             IN  [out   |-> IF r.ok THEN <<"issued">> ELSE <<"already_issued">>,
                  books |-> [bs EXCEPT ![k] = r.book]]

issue_book_all(bs, isbn) ==
    LET k == search_by_isbn(bs, isbn)
    IN  IF k = 0
        THEN [out |-> <<"not_found">>, books |-> bs]
        ELSE LET r == Book_issue(bs[k])
             IN  [out   |-> IF r.ok THEN <<"issued">> ELSE <<"already_issued">>,
                  books |-> [j \in 1..Len(bs) |->
                               IF bs[j].isbn = isbn
                               THEN [bs[j] EXCEPT !.status = r.book.status]
                               ELSE bs[j]]]

issue_book(bs, isbn) ==
    LET k == search_by_isbn(bs, isbn)
    IN  IF k = 0
        THEN [out |-> <<"not_found">>, books |-> bs]
        ELSE LET r == Book_issue(bs[k])
             IN  [out   |-> IF r.ok THEN <<"issued">> ELSE <<"already_issued">>,
                  books |-> [bs EXCEPT ![k] = r.book]]

\* return_book
return_book(bs, isbn) ==
    LET k == search_by_isbn(bs, isbn)
    IN  IF k = 0
        THEN [out |-> <<"not_found">>, books |-> bs]
        ELSE LET r == Book_return_book(bs[k])
             IN  [out   |-> IF r.ok THEN <<"returned">> ELSE <<"already_available">>,
                  books |-> [bs EXCEPT ![k] = r.book]]

\* ------------------------------------------------------------ data file
\* The data file is absent, unreadable (open raises OSError), text that is
\* not JSON, or a JSON document: a list, an object (iterated by its keys)
\* or a scalar; items are the values the load loop iterates over.
NoDict ==
    [title |-> JMissing, author |-> JMissing, isbn |-> JMissing,
     status |-> JMissing, extra |-> FALSE]

DictItem(d) == [t |-> "dict", d |-> d]

OtherItem == [t |-> "other", d |-> NoDict]

AbsentFile == [kind |-> "absent", top |-> "none", items |-> <<>>]

UnreadableFile == [kind |-> "unreadable", top |-> "none", items |-> <<>>]

TextFile == [kind |-> "text", top |-> "none", items |-> <<>>]

JsonFile(top, items) == [kind |-> "json", top |-> top, items |-> items]

\* json.dump([book.to_dict() for book in self.books], f)
Serialize(bs) == JsonFile("list", [k \in 1..Len(bs) |-> DictItem(to_dict(bs[k]))])

\* the load loop raises: the document is not iterable, an item is not a
\* dict (no .get), or a field is not a string (no .strip / .lower)
LoadRaises(st) ==
    /\ st.kind = "json"
    /\ \/ st.top = "scalar"
       \/ \E k \in 1..Len(st.items) :
            st.items[k].t # "dict" \/ from_dict_raises(st.items[k].d)

\* load_from_file: the list it leaves in self.books and what it prints
load_from_file(st) ==
    IF st.kind = "absent" THEN [books |-> <<>>, out |-> <<>>]
    ELSE IF st.kind = "unreadable" THEN [books |-> <<>>, out |-> <<"read_error">>]
    ELSE IF st.kind = "text" THEN [books |-> <<>>, out |-> <<"corrupted">>]
    ELSE IF LoadRaises(st) THEN [books |-> <<>>, out |-> <<"unexpected_error">>]
    ELSE [books |-> [k \in 1..Len(st.items) |-> from_dict(st.items[k].d)],
          out   |-> <<>>]

\* ----------------------------------------------------------------- inputs
\* what the user types at the prompts
TitleInputs == {<<" ","U","n">>}

AuthorInputs == {<<"H">>}

IsbnInputs == {<<"x">>, <<"X"," ">>}

\* identifiers typed at the issue, return and search prompts
LookupInputs == IsbnInputs \cup {<<"y">>}

SearchInputs == {<<"d">>, <<"U">>, <<"U","N">>, <<"z">>}

\* the data files the first run can find on disk
Entry(title, author, isbn, status, extra) ==
    DictItem([title |-> title, author |-> author, isbn |-> isbn,
              status |-> status, extra |-> extra])

InitialStores ==
    { AbsentFile, UnreadableFile, TextFile,
      JsonFile("scalar", <<>>),
      JsonFile("object", <<>>),
      JsonFile("object", <<OtherItem>>),
      JsonFile("list", <<>>),
      JsonFile("list", <<OtherItem>>),
      JsonFile("list", <<Entry(JStr(<<"D","u">>), JStr(<<"H">>), JNull, JMissing, FALSE)>>),
      JsonFile("list", <<Entry(JStr(<<"D","u">>), JStr(<<"H">>), JStr(<<" ","x">>),
                               JStr(<<"I","S","S","U","E","D">>), FALSE),
                         Entry(JStr(<<"u","n">>), JStr(<<"H">>), JStr(<<"x">>),
                               JMissing, TRUE)>>),
      JsonFile("list", <<Entry(JStr(<<"D","u">>), JMissing, JStr(<<"X">>),
                               JStr(<<"l","o","s","t">>), FALSE),
                         Entry(JMissing, JStr(<<"H"," ">>), JMissing,
                               JStr(<<"I","s","s","u","e","d">>), TRUE)>>) }

NoSave == [ok |-> FALSE, books |-> <<>>]

NoLine == [kind |-> "none", s |-> <<>>]

\* the prompt-level state when the process starts
InitPrompt ==
    /\ line = NoLine
    /\ choice = 0
    /\ typed = <<>>
    /\ eof = FALSE
    /\ saves = 0

\* the exception classes that `except Exception` catches
ExceptionClasses ==
    {"TypeError", "AttributeError", "ValueError", "UnicodeDecodeError",
     "OSError", "EOFError"}

\* the handler of the __main__ guard: where an exception that leaves main()
\* ends the process, and what is printed
main_guard_oserror(exc) ==
    IF exc = "OSError"
    THEN [pc |-> "crashed", out |-> <<"unexpected_error">>]
    ELSE [pc |-> "unhandled", out |-> <<>>]

main_guard(exc) ==
    IF exc \in ExceptionClasses
    THEN [pc |-> "crashed", out |-> <<"unexpected_error">>]
    ELSE [pc |-> "unhandled", out |-> <<>>]

\* the exception of the load loop: iterating a scalar is a TypeError,
\* .get / .strip / .lower on the wrong type an AttributeError
LoadException(st) == IF st.top = "scalar" THEN "TypeError" ELSE "AttributeError"

\* ---------------------------------------------------------------- actions
Init ==
    /\ pc = "start"
    /\ books = <<>>
    /\ store \in InitialStores
    /\ out = <<>>
    /\ result = <<>>
    /\ lastOp = "none"
    /\ arg = <<>>
    /\ saved = NoSave
    /\ InitPrompt

\* main: inventory = LibraryInventory(); an exception of the load loop
\* reaches the handler of the __main__ guard and ends the process
LibraryInventory_init ==
    /\ pc = "start"
    /\ LET r == load_from_file(store)
       IN  /\ books' = r.books
           /\ out' = IF LoadRaises(store) THEN main_guard(LoadException(store)).out
                                          ELSE r.out
           /\ pc' = IF LoadRaises(store) THEN main_guard(LoadException(store)).pc
                                         ELSE "menu"
    /\ lastOp' = "load"
    /\ result' = <<>>
    /\ arg' = <<>>
    /\ UNCHANGED <<store, saved>>
    /\ UNCHANGED cli

\* menu choice 1
handle_add_book(t, a, i) ==
    /\ pc = "menu"
    /\ Strip(t) # <<>> /\ Strip(a) # <<>> /\ Strip(i) # <<>>
    /\ LET new_book == Book_init(Strip(t), Strip(a), Strip(i), AVAILABLE)
           after == add_book(books, new_book)
       IN  /\ Len(after) <= MaxBooks
           /\ books' = after
           /\ out' = IF search_by_isbn(books, new_book.isbn) # 0
                     THEN <<"duplicate", "book_added">>
                     ELSE <<"book_added">>
           /\ arg' = new_book.isbn
    /\ lastOp' = "add"
    /\ result' = <<>>
    /\ UNCHANGED <<pc, store, saved>>
    /\ UNCHANGED cli

\* menu choice 2
handle_issue_book_autosave(i) ==
    /\ pc = "menu"
    /\ Strip(i) # <<>>
    /\ LET r == issue_book(books, Strip(i))
       IN  books' = r.books /\ out' = r.out /\ store' = Serialize(r.books)
    /\ arg' = Strip(i)
    /\ lastOp' = "issue"
    /\ result' = <<>>
    /\ UNCHANGED <<pc, saved>>
    /\ UNCHANGED cli

handle_issue_book(i) ==
    /\ pc = "menu"
    /\ Strip(i) # <<>>
    /\ LET r == issue_book(books, Strip(i))
       IN  books' = r.books /\ out' = r.out
    /\ arg' = Strip(i)
    /\ lastOp' = "issue"
    /\ result' = <<>>
    /\ UNCHANGED <<pc, store, saved>>
    /\ UNCHANGED cli

\* menu choice 3
handle_return_book(i) ==
    /\ pc = "menu"
    /\ Strip(i) # <<>>
    /\ LET r == return_book(books, Strip(i))
       IN  books' = r.books /\ out' = r.out
    /\ arg' = Strip(i)
    /\ lastOp' = "return"
    /\ result' = <<>>
    /\ UNCHANGED <<pc, store, saved>>
    /\ UNCHANGED cli

\* menu choice 4: display_all
handle_view_all ==
    /\ pc = "menu"
    /\ out' = IF books = <<>> THEN <<"no_books">> ELSE <<"all_books">>
    /\ result' = books
    /\ lastOp' = "view_all"
    /\ arg' = <<>>
    /\ UNCHANGED <<pc, books, store, saved>>
    /\ UNCHANGED cli

\* menu choice 5, search choice 1
handle_search_title(s) ==
    /\ pc = "menu"
    /\ Strip(s) # <<>>
    /\ result' = search_by_title(books, Strip(s))
    /\ out' = IF result' = <<>> THEN <<"no_title_match">> ELSE <<"found">>
    /\ arg' = Strip(s)
    /\ lastOp' = "search_title"
    /\ UNCHANGED <<pc, books, store, saved>>
    /\ UNCHANGED cli

\* menu choice 5, search choice 2
handle_search_isbn(i) ==
    /\ pc = "menu"
    /\ Strip(i) # <<>>
    /\ LET k == search_by_isbn(books, Strip(i))
       IN  /\ result' = IF k = 0 THEN <<>> ELSE <<books[k]>>
           /\ out' = IF k = 0 THEN <<"no_isbn_match">> ELSE <<"book_found">>
    /\ arg' = Strip(i)
    /\ lastOp' = "search_isbn"
    /\ UNCHANGED <<pc, books, store, saved>>
    /\ UNCHANGED cli

\* save_to_file when open(..., "w") raises OSError: nothing is written
SaveOpenFails ==
    /\ store' = store
    /\ out' = <<"save_error">>
    /\ saved' = NoSave

\* save_to_file when a write raises OSError after open(..., "w") has
\* truncated the file: the file holds an incomplete document
SaveWriteFails_silent ==
    /\ store.kind # "unreadable"
    /\ store' = TextFile
    /\ out' = <<>>
    /\ saved' = NoSave

SaveWriteFails ==
    /\ store.kind # "unreadable"
    /\ store' = TextFile
    /\ out' = <<"save_error">>
    /\ saved' = NoSave

\* save_to_file when nothing raises
SaveSucceeds ==
    /\ store.kind # "unreadable"
    /\ store' = Serialize(books)
    /\ out' = <<>>
    /\ saved' = [ok |-> TRUE, books |-> books]

\* menu choice 6: save_to_file, then leave the loop
SaveExit ==
    /\ pc = "menu"
    /\ SaveOpenFails \/ SaveWriteFails \/ SaveSucceeds
    /\ pc' = "exited"
    /\ lastOp' = "save"
    /\ result' = <<>>
    /\ arg' = <<>>
    /\ saves' = saves + 1
    /\ UNCHANGED <<books, line, choice, typed, eof>>

\* the program is started again: a new process with no objects
Restart ==
    /\ pc \in {"exited", "crashed"}
    /\ pc' = "start"
    /\ books' = <<>>
    /\ out' = <<>>
    /\ result' = <<>>
    /\ lastOp' = "none"
    /\ arg' = <<>>
    /\ line' = NoLine /\ choice' = 0 /\ typed' = <<>> /\ eof' = FALSE /\ saves' = 0
    /\ UNCHANGED <<store, saved>>

\* each step is one round of the menu loop; the prompts inside a round are
\* followed by SpecCLI
Next ==
    \/ LibraryInventory_init
    \/ \E t \in TitleInputs, a \in AuthorInputs, i \in IsbnInputs : handle_add_book(t, a, i)
    \/ \E i \in LookupInputs : handle_issue_book(i)
    \/ \E i \in LookupInputs : handle_return_book(i)
    \/ handle_view_all
    \/ \E s \in SearchInputs : handle_search_title(s)
    \/ \E i \in LookupInputs : handle_search_isbn(i)
    \/ SaveExit
    \/ Restart

Spec == Init /\ [][Next]_vars

\* ------------------------------------------------ single-entry data files
\* status strings an entry of the data file can carry
StatusInputs ==
    { ISSUED, <<"I","S","S","U","E","D">>, <<"I","s","s","u","e","d">>,
      AVAILABLE, <<"A","v","a","i","l","a","b","l","e">>,
      <<>>, <<"l","o","s","t">>, <<" ","i","s","s","u","e","d">> }

\* data files of one entry with every subset of the four keys, with and
\* without an extra key
EntryStores ==
    { JsonFile("list", <<Entry(t, a, i, st, e)>>) :
        t \in {JMissing, JStr(<<"D","u"," ">>)},
        a \in {JMissing, JStr(<<"H">>)},
        i \in {JMissing, JStr(<<" ","x">>)},
        st \in {JMissing} \cup {JStr(x) : x \in StatusInputs},
        e \in BOOLEAN }

InitEntries ==
    /\ pc = "start"
    /\ books = <<>>
    /\ store \in EntryStores
    /\ out = <<>>
    /\ result = <<>>
    /\ lastOp = "none"
    /\ arg = <<>>
    /\ saved = NoSave
    /\ InitPrompt

NextEntries ==
    \/ LibraryInventory_init
    \/ \E i \in LookupInputs : handle_issue_book(i)
    \/ \E i \in LookupInputs : handle_return_book(i)

SpecEntries == InitEntries /\ [][NextEntries]_vars

\* ------------------------------------------------------- the prompt level
\* the outcome of one input() call: a line of text, EOFError,
\* KeyboardInterrupt, or UnicodeDecodeError (bytes that are not UTF-8)
TextLine(s) == [kind |-> "text", s |-> s]

EOFLine == [kind |-> "eof", s |-> <<>>]

InterruptLine == [kind |-> "interrupt", s |-> <<>>]

DecodeErrorLine == [kind |-> "decode_error", s |-> <<>>]

\* every input() outcome when the user may type one of the strings of S
Reads(S) == {TextLine(x) : x \in S} \cup {EOFLine, InterruptLine, DecodeErrorLine}

\* input() can have outcome l now: EOFError exactly when the stream is
\* exhausted, KeyboardInterrupt at any time
CanRead(l) == IF eof THEN l.kind \in {"eof", "interrupt"} ELSE l.kind # "eof"

MenuLines ==
    { <<"1">>, <<"2">>, <<"3">>, <<"4">>, <<"5">>, <<"6">>, <<" ","6"," ">>,
      <<"7">>, <<"-","1">>, <<"a">>, <<>> }

SearchChoiceLines == { <<"1">>, <<"2">>, <<"3">>, <<"a">> }

Digits == <<"0","1","2","3","4","5","6","7","8","9">>

IsDigit(c) == \E k \in 1..Len(Digits) : Digits[k] = c

DigitValue(c) == (CHOOSE k \in 1..Len(Digits) : Digits[k] = c) - 1

\* the digits of a numeral, after the surrounding whitespace and the sign
Numeral(s) ==
    LET t == Strip(s)
    IN  IF t # <<>> /\ t[1] \in {"+", "-"} THEN Tail(t) ELSE t

\* int(s) raises ValueError
int_raises(s) ==
    Numeral(s) = <<>> \/ \E k \in 1..Len(Numeral(s)) : ~IsDigit(Numeral(s)[k])

RECURSIVE DigitsValue(_)
DigitsValue(ds) ==
    IF ds = <<>> THEN 0
    ELSE 10 * DigitsValue(SubSeq(ds, 1, Len(ds) - 1)) + DigitValue(ds[Len(ds)])

\* int(s)
int(s) ==
    LET t == Strip(s)
    IN  IF t # <<>> /\ t[1] = "-" THEN 0 - DigitsValue(Numeral(s))
        ELSE DigitsValue(Numeral(s))

\* get_menu_choice on one input() outcome: the value it returns, 0 when it
\* returns nothing and prompts again, and the message it prints
get_menu_choice_eof_retry(l) ==
    IF l.kind \in {"eof", "interrupt"}
    THEN [ret |-> 0, out |-> <<"cancelled_exiting">>]
    ELSE IF l.kind = "decode_error" \/ int_raises(Strip(l.s))
    THEN [ret |-> 0, out |-> <<"invalid_input">>]
    ELSE IF 1 <= int(Strip(l.s)) /\ int(Strip(l.s)) <= 6
    THEN [ret |-> int(Strip(l.s)), out |-> <<>>]
    ELSE [ret |-> 0, out |-> <<"out_of_range">>]

get_menu_choice_unchecked(l) ==
    IF l.kind \in {"eof", "interrupt"}
    THEN [ret |-> 6, out |-> <<"cancelled_exiting">>]
    ELSE IF l.kind = "decode_error" \/ int_raises(Strip(l.s))
    THEN [ret |-> 0, out |-> <<"invalid_input">>]
    ELSE [ret |-> int(Strip(l.s)), out |-> <<>>]

get_menu_choice(l) ==
    IF l.kind \in {"eof", "interrupt"}
    THEN [ret |-> 6, out |-> <<"cancelled_exiting">>]
    ELSE IF l.kind = "decode_error" \/ int_raises(Strip(l.s))
    THEN [ret |-> 0, out |-> <<"invalid_input">>]
    ELSE IF 1 <= int(Strip(l.s)) /\ int(Strip(l.s)) <= 6
    THEN [ret |-> int(Strip(l.s)), out |-> <<>>]
    ELSE [ret |-> 0, out |-> <<"out_of_range">>]

\* get_non_empty_input on one input() outcome: it returns the stripped
\* value, prompts again, returns "" (cancel), or lets ValueError through
get_non_empty_input(l) ==
    IF l.kind \in {"eof", "interrupt"}
    THEN [ret |-> "cancel", value |-> <<>>, out |-> <<"input_cancelled">>]
    ELSE IF l.kind = "decode_error"
    THEN [ret |-> "raise", value |-> <<>>, out |-> <<>>]
    ELSE IF Strip(l.s) = <<>>
    THEN [ret |-> "retry", value |-> <<>>, out |-> <<"empty_input">>]
    ELSE [ret |-> "value", value |-> Strip(l.s), out |-> <<>>]

\* the positions where the process waits in input()
InputPrompts ==
    {"add_title", "add_author", "add_isbn", "issue_isbn", "return_isbn",
     "search_title", "search_isbn"}

PromptStates == {"menu", "search_choice"} \cup InputPrompts

\* what the user may type at each get_non_empty_input prompt
PromptLines(p) ==
    IF p = "add_title" THEN TitleInputs \cup {<<" ">>}
    ELSE IF p = "add_author" THEN AuthorInputs \cup {<<>>}
    ELSE IF p = "add_isbn" THEN IsbnInputs
    ELSE IF p = "search_title" THEN SearchInputs
    ELSE LookupInputs

AllPromptLines == UNION {PromptLines(p) : p \in InputPrompts}

\* input() at prompt p can have outcome l now
CanReadAt(p, l) == CanRead(l) /\ (l.kind = "text" => l.s \in PromptLines(p))

\* the first prompt of the handler that main calls for a menu choice
FirstPrompt(c) ==
    IF c = 1 THEN "add_title"
    ELSE IF c = 2 THEN "issue_isbn"
    ELSE IF c = 3 THEN "return_isbn"
    ELSE "search_choice"

\* the data files of the prompt-level specification
CliStores == {AbsentFile, JsonFile("scalar", <<>>)}

InitCLI ==
    /\ pc = "start"
    /\ books = <<>>
    /\ store \in CliStores
    /\ out = <<>>
    /\ result = <<>>
    /\ lastOp = "none"
    /\ arg = <<>>
    /\ saved = NoSave
    /\ InitPrompt

\* the input stream ends while the process waits at a prompt
InputExhausted ==
    /\ pc \in PromptStates
    /\ ~eof
    /\ eof' = TRUE
    /\ UNCHANGED <<pc, books, store, out, result, lastOp, arg, saved,
                   line, choice, typed, saves>>

\* get_menu_choice prints a message and prompts again (it returns nothing,
\* 0 here); a returned value that no branch of main matches would be
\* assigned to choice and the loop would go round
menu_retry(l) ==
    /\ pc = "menu"
    /\ CanRead(l)
    /\ get_menu_choice(l).ret \notin 1..6
    /\ line' = l
    /\ choice' = IF get_menu_choice(l).ret = 0 THEN choice ELSE get_menu_choice(l).ret
    /\ out' = get_menu_choice(l).out
    /\ lastOp' = "menu_retry"
    /\ UNCHANGED <<pc, books, store, result, arg, saved, typed, eof, saves>>

\* choices 1, 2, 3 and 5: main calls the handler, which prompts
menu_enter(l) ==
    /\ pc = "menu"
    /\ CanRead(l)
    /\ get_menu_choice(l).ret \in {1, 2, 3, 5}
    /\ line' = l
    /\ choice' = get_menu_choice(l).ret
    /\ pc' = FirstPrompt(get_menu_choice(l).ret)
    /\ typed' = <<>>
    /\ out' = get_menu_choice(l).out
    /\ lastOp' = "menu_choice"
    /\ UNCHANGED <<books, store, result, arg, saved, eof, saves>>

\* choice 4: handle_view_all
menu_view(l) ==
    /\ pc = "menu"
    /\ CanRead(l)
    /\ get_menu_choice(l).ret = 4
    /\ line' = l
    /\ choice' = 4
    /\ out' = IF books = <<>> THEN <<"no_books">> ELSE <<"all_books">>
    /\ result' = books
    /\ lastOp' = "view_all"
    /\ UNCHANGED <<pc, books, store, arg, saved, typed, eof, saves>>

\* choice 6, also returned when the input is interrupted: save and leave
menu_exit(l) ==
    /\ pc = "menu"
    /\ CanRead(l)
    /\ get_menu_choice(l).ret = 6
    /\ line' = l
    /\ choice' = 6
    /\ SaveOpenFails \/ SaveWriteFails \/ SaveSucceeds
    /\ pc' = "exited"
    /\ saves' = saves + 1
    /\ lastOp' = "save"
    /\ UNCHANGED <<books, result, arg, typed, eof>>

\* get_non_empty_input prints "cannot be empty" and prompts again
prompt_retry(l) ==
    /\ pc \in InputPrompts
    /\ CanReadAt(pc, l)
    /\ get_non_empty_input(l).ret = "retry"
    /\ line' = l
    /\ out' = get_non_empty_input(l).out
    /\ lastOp' = "prompt_retry"
    /\ UNCHANGED <<pc, books, store, result, arg, saved, choice, typed, eof, saves>>

\* get_non_empty_input returns "" and the handler returns to the menu loop
prompt_cancel(l) ==
    /\ pc \in InputPrompts
    /\ CanReadAt(pc, l)
    /\ get_non_empty_input(l).ret = "cancel"
    /\ line' = l
    /\ out' = get_non_empty_input(l).out
    /\ pc' = "menu"
    /\ typed' = <<>>
    /\ lastOp' = "prompt_cancel"
    /\ UNCHANGED <<books, store, result, arg, saved, choice, eof, saves>>

\* input() raises an exception get_non_empty_input does not catch: it
\* leaves the handler and main() and reaches the __main__ guard
prompt_raise(l) ==
    /\ pc \in InputPrompts
    /\ CanReadAt(pc, l)
    /\ get_non_empty_input(l).ret = "raise"
    /\ line' = l
    /\ pc' = main_guard("UnicodeDecodeError").pc
    /\ out' = main_guard("UnicodeDecodeError").out
    /\ lastOp' = "raise"
    /\ UNCHANGED <<books, store, result, arg, saved, choice, typed, eof, saves>>

\* handle_add_book: the title and the author have been read
add_field(l) ==
    /\ pc \in {"add_title", "add_author"}
    /\ CanReadAt(pc, l)
    /\ get_non_empty_input(l).ret = "value"
    /\ line' = l
    /\ typed' = Append(typed, get_non_empty_input(l).value)
    /\ pc' = IF pc = "add_title" THEN "add_author" ELSE "add_isbn"
    /\ out' = <<>>
    /\ lastOp' = "field"
    /\ UNCHANGED <<books, store, result, arg, saved, choice, eof, saves>>

\* handle_add_book: the ISBN has been read, the book is built and added
add_isbn(l) ==
    /\ pc = "add_isbn"
    /\ CanReadAt(pc, l)
    /\ get_non_empty_input(l).ret = "value"
    /\ line' = l
    /\ LET new_book == Book_init(typed[1], typed[2], get_non_empty_input(l).value,
                                 AVAILABLE)
           after == add_book(books, new_book)
       IN  /\ Len(after) <= MaxBooks
           /\ books' = after
           /\ out' = IF search_by_isbn(books, new_book.isbn) # 0
                     THEN <<"duplicate", "book_added">>
                     ELSE <<"book_added">>
           /\ arg' = new_book.isbn
    /\ pc' = "menu"
    /\ typed' = <<>>
    /\ result' = <<>>
    /\ lastOp' = "add"
    /\ UNCHANGED <<store, saved, choice, eof, saves>>

\* handle_issue_book and handle_return_book: the ISBN has been read
issue_or_return(l) ==
    /\ pc \in {"issue_isbn", "return_isbn"}
    /\ CanReadAt(pc, l)
    /\ get_non_empty_input(l).ret = "value"
    /\ line' = l
    /\ LET r == IF pc = "issue_isbn"
                THEN issue_book(books, get_non_empty_input(l).value)
                ELSE return_book(books, get_non_empty_input(l).value)
       IN  books' = r.books /\ out' = r.out
    /\ arg' = get_non_empty_input(l).value
    /\ lastOp' = IF pc = "issue_isbn" THEN "issue" ELSE "return"
    /\ pc' = "menu"
    /\ result' = <<>>
    /\ UNCHANGED <<store, saved, choice, typed, eof, saves>>

\* handle_search: the search choice is read with a bare input() and int()
search_choice(l) ==
    /\ pc = "search_choice"
    /\ CanRead(l)
    /\ line' = l
    /\ IF l.kind \in {"eof", "interrupt"}
       THEN pc' = "menu" /\ out' = <<"input_cancelled">>
       ELSE IF l.kind = "decode_error" \/ int_raises(Strip(l.s))
       THEN pc' = "menu" /\ out' = <<"invalid_input">>
       ELSE IF int(Strip(l.s)) = 1
       THEN pc' = "search_title" /\ out' = <<>>
       ELSE IF int(Strip(l.s)) = 2
       THEN pc' = "search_isbn" /\ out' = <<>>
       ELSE pc' = "menu" /\ out' = <<"invalid_choice">>
    /\ lastOp' = "search_choice"
    /\ UNCHANGED <<books, store, result, arg, saved, choice, typed, eof, saves>>

\* handle_search: the title or the ISBN to look for has been read
search_value(l) ==
    /\ pc \in {"search_title", "search_isbn"}
    /\ CanReadAt(pc, l)
    /\ get_non_empty_input(l).ret = "value"
    /\ line' = l
    /\ LET v == get_non_empty_input(l).value
           k == search_by_isbn(books, v)
       IN  IF pc = "search_title"
           THEN /\ result' = search_by_title(books, v)
                /\ out' = IF result' = <<>> THEN <<"no_title_match">> ELSE <<"found">>
           ELSE /\ result' = IF k = 0 THEN <<>> ELSE <<books[k]>>
                /\ out' = IF k = 0 THEN <<"no_isbn_match">> ELSE <<"book_found">>
    /\ arg' = get_non_empty_input(l).value
    /\ lastOp' = IF pc = "search_title" THEN "search_title" ELSE "search_isbn"
    /\ pc' = "menu"
    /\ UNCHANGED <<books, store, saved, choice, typed, eof, saves>>

NextCLI ==
    \/ LibraryInventory_init
    \/ InputExhausted
    \/ \E l \in Reads(MenuLines) : menu_retry(l)
    \/ \E l \in Reads(MenuLines) : menu_enter(l)
    \/ \E l \in Reads(MenuLines) : menu_view(l)
    \/ \E l \in Reads(MenuLines) : menu_exit(l)
    \/ \E l \in Reads(AllPromptLines) : prompt_retry(l)
    \/ \E l \in Reads(AllPromptLines) : prompt_cancel(l)
    \/ \E l \in Reads(AllPromptLines) : prompt_raise(l)
    \/ \E l \in Reads(AllPromptLines) : add_field(l)
    \/ \E l \in Reads(AllPromptLines) : add_isbn(l)
    \/ \E l \in Reads(AllPromptLines) : issue_or_return(l)
    \/ \E l \in Reads(SearchChoiceLines) : search_choice(l)
    \/ \E l \in Reads(AllPromptLines) : search_value(l)

SpecCLI == InitCLI /\ [][NextCLI]_vars

\* the process keeps running: whenever a step is possible one is taken
FairSpecCLI == SpecCLI /\ WF_vars(NextCLI)

\* ------------------------------------------------------------- properties
Hits(bs, isbn) == {k \in 1..Len(bs) : bs[k].isbn = isbn}

FirstHit(bs, isbn) == CHOOSE k \in Hits(bs, isbn) : \A h \in Hits(bs, isbn) : k <= h

\* C1: in every reachable state of the catalog no two records of the
\* sequence have the same identifier (exact string equality).
C1_UniqueIdentifiers ==
    \A i, j \in 1..Len(books) : i # j => books[i].isbn # books[j].isbn

\* C2: in every reachable state the status of every record, however it was
\* constructed, deserialized or mutated, is exactly "available" or "issued".
C2_StatusIsEnum ==
    /\ \A k \in 1..Len(books) : books[k].status \in {AVAILABLE, ISSUED}
    /\ \A k \in 1..Len(result) : result[k].status \in {AVAILABLE, ISSUED}

\* a record deserialized with the unrecognized status "lost" has been issued
C2_Witness ==
    /\ lastOp = "issue" /\ out = <<"issued">>
    /\ store.kind = "json" /\ Len(store.items) = 2
    /\ store.items[1].d.status = JStr(<<"l","o","s","t">>)
    /\ Len(books) >= 2 /\ books[1].status = ISSUED

\* C3: within a run a record's status changes only by a successful Issue
\* (available to issued) or a successful Return (issued to available) on its
\* identifier; an Issue or Return that reports failure changes nothing, one
\* that reports success changes a status, and the same Issue (Return)
\* repeated directly after a successful one fails.
C3_StatusMachine ==
    [][(pc = "menu" /\ pc' = "menu") =>
        /\ Len(books') >= Len(books)
        /\ \A k \in 1..Len(books) :
              books'[k].status # books[k].status =>
                 \/ /\ lastOp' = "issue" /\ out' = <<"issued">>
                    /\ books[k].isbn = arg'
                    /\ books[k].status = AVAILABLE /\ books'[k].status = ISSUED
                 \/ /\ lastOp' = "return" /\ out' = <<"returned">>
                    /\ books[k].isbn = arg'
                    /\ books[k].status = ISSUED /\ books'[k].status = AVAILABLE
        /\ (lastOp' \in {"issue", "return"} /\ out' \notin {<<"issued">>, <<"returned">>})
              => books' = books
        /\ (lastOp' \in {"issue", "return"} /\ out' \in {<<"issued">>, <<"returned">>})
              => \E k \in 1..Len(books) : books'[k].status # books[k].status
        /\ (lastOp = "issue" /\ out = <<"issued">> /\ lastOp' = "issue" /\ arg' = arg)
              => (out' = <<"already_issued">> /\ books' = books)
        /\ (lastOp = "return" /\ out = <<"returned">> /\ lastOp' = "return" /\ arg' = arg)
              => (out' = <<"already_available">> /\ books' = books)
    ]_vars

\* a run that started from an empty list (every record was added as
\* available) has had an Issue refused on a record issued earlier
C3_Witness ==
    /\ store.kind = "absent"
    /\ lastOp = "issue" /\ out = <<"already_issued">>
    /\ \E k \in 1..Len(books) : books[k].isbn = arg /\ books[k].status = ISSUED

\* C4: Add of a record whose identifier a record of the catalog already has
\* is rejected with the duplicate message, the program stays in the menu and
\* the sequence is unchanged; otherwise the record becomes the last element
\* and the records before it are unchanged.
C4_AddRejectsDuplicates ==
    [][lastOp' = "add" =>
        /\ pc' = "menu"
        /\ IF Hits(books, arg') # {}
           THEN books' = books /\ out'[1] = "duplicate"
           ELSE /\ Len(books') = Len(books) + 1
                /\ SubSeq(books', 1, Len(books)) = books
                /\ books'[Len(books')].isbn = arg'
                /\ books'[Len(books')].status = AVAILABLE
    ]_vars

\* a duplicate Add has been rejected on a catalog of at least two records
C4_Witness ==
    /\ lastOp = "add" /\ out[1] = "duplicate"
    /\ Len(books) >= 2 /\ Hits(books, arg) # {}

\* C5: once Save has succeeded, the Load of the next run yields exactly the
\* sequence that was saved: same length, order, title, author, identifier
\* and status of each record.
C5_RoundTrip ==
    (lastOp = "load" /\ saved.ok) => (pc = "menu" /\ books = saved.books)

\* a saved catalog holding an issued and an available record has been loaded
C5_Witness ==
    /\ lastOp = "load" /\ saved.ok
    /\ \E i, j \in 1..Len(books) : books[i].status = ISSUED /\ books[j].status = AVAILABLE

\* the store is not a list of entries: not JSON, not a list, or a list
\* with an element that is not an entry
NotAListOfEntries(st) ==
    \/ st.kind = "text"
    \/ /\ st.kind = "json"
       /\ st.top # "list" \/ \E k \in 1..Len(st.items) : st.items[k].t # "dict"

\* C6: Load from a missing source gives an empty catalog and no signal; Load
\* from a source that is not a list of entries (syntactically valid or not)
\* gives an empty catalog and the corruption signal, and the program goes on
\* to the menu.
C6_LoadDegrades ==
    lastOp = "load" =>
        /\ store.kind = "absent" => (books = <<>> /\ out = <<>> /\ pc = "menu")
        /\ NotAListOfEntries(store) =>
              (books = <<>> /\ out = <<"corrupted">> /\ pc = "menu")

\* C7: Issue and Return on an identifier no record has report not-found and
\* leave the catalog unchanged; on an identifier a record has, the outcome
\* and the new status are those of Issue (Return) on the record looked up,
\* the first with that identifier.
C7_IssueReturnOutcome ==
    [][lastOp' \in {"issue", "return"} =>
        IF Hits(books, arg') = {}
        THEN out' = <<"not_found">> /\ books' = books /\ store' = store
        ELSE LET k == FirstHit(books, arg')
             IN  /\ lastOp' = "issue" =>
                      /\ out' = IF books[k].status = AVAILABLE
                                THEN <<"issued">> ELSE <<"already_issued">>
                      /\ books'[k].status = ISSUED
                 /\ lastOp' = "return" =>
                      /\ out' = IF books[k].status = ISSUED
                                THEN <<"returned">> ELSE <<"already_available">>
                      /\ books'[k].status = AVAILABLE
    ]_vars

\* a Return has succeeded on one record of a catalog of several
C7_Witness ==
    /\ lastOp = "return" /\ out = <<"returned">>
    /\ Len(books) >= 2
    /\ Hits(books, arg) # {} /\ books[FirstHit(books, arg)].status = AVAILABLE

\* C8: FindByIdentifier(i) returns not-found when no record has identifier
\* i, otherwise the one and only record whose identifier is i, and never
\* changes the catalog.
C8_FindByIdentifier ==
    [][lastOp' = "search_isbn" =>
        /\ books' = books
        /\ IF Hits(books, arg') = {}
           THEN result' = <<>>
           ELSE /\ Cardinality(Hits(books, arg')) = 1
                /\ result' = <<books[FirstHit(books, arg')]>>
    ]_vars

CaseInsensitiveContains(hay, needle) ==
    \E k \in 0..(Len(hay) - Len(needle)) :
        \A j \in 1..Len(needle) : LowerChar(hay[k + j]) = LowerChar(needle[j])

Matching(bs, s) == {k \in 1..Len(bs) : CaseInsensitiveContains(bs[k].title, s)}

\* C9: FindByTitle(s) returns, in catalog order, exactly the records whose
\* title contains s ignoring case (none when no title matches, all of them
\* for the empty string) and never changes the catalog.
C9_FindByTitle ==
    [][/\ search_by_title(books', <<>>) = books'
       /\ lastOp' = "search_title" =>
            /\ books' = books
            /\ Len(result') = Cardinality(Matching(books, arg'))
            /\ \E f \in [1..Len(result') -> Matching(books, arg')] :
                  /\ \A a, b \in 1..Len(result') : a < b => f[a] < f[b]
                  /\ \A a \in 1..Len(result') : result'[a] = books[f[a]]
    ]_vars

\* a search typed in upper case has returned some but not all records
C9_Witness ==
    /\ lastOp = "search_title" /\ arg = <<"U","N">>
    /\ Len(result) >= 1 /\ Len(result) < Len(books)

\* C10: when Save reports a failure, a store that held a valid catalog
\* still holds that complete content.
C10_FailedSaveKeepsStore ==
    [][(lastOp' = "save" /\ out' = <<"save_error">>
          /\ store.kind = "json" /\ ~LoadRaises(store))
        => store' = store
    ]_vars

\* C11: Save never changes the in-memory sequence; when it fails it prints
\* the failure signal and returns to its caller, which ends the run normally.
C11_SaveKeepsMemory ==
    [][lastOp' = "save" =>
        /\ books' = books
        /\ pc' = "exited"
        /\ out' = IF saved'.ok THEN <<>> ELSE <<"save_error">>
    ]_vars

\* a Save of a non-empty catalog has failed after truncating the file
C11_Witness ==
    /\ lastOp = "save" /\ out = <<"save_error">> /\ pc = "exited"
    /\ books # <<>> /\ store.kind = "text"

\* C12: the store is left unchanged by Load and by Add, Issue, Return, the
\* two searches and the listing; only Save writes it, so it keeps the
\* content of the last Save whatever happens in memory.
C12_StoreOnlyWrittenBySave ==
    [][lastOp' # "save" => store' = store]_vars

\* in a run after a successful Save a record has been issued in memory and
\* the store still holds what was saved
C12_Witness ==
    /\ saved.ok /\ lastOp = "issue" /\ out = <<"issued">>
    /\ store = Serialize(saved.books) /\ store # Serialize(books)

Triple(b) == <<b.title, b.author, b.isbn>>

Triples(bs) == [k \in 1..Len(bs) |-> Triple(bs[k])]

\* C15: from Load to the end of the run the sequence of (title, author,
\* identifier) triples only grows at its end, and the listing shows the
\* records in that order.
C15_RecordsPersistInOrder ==
    [][(pc = "menu" /\ pc' \in {"menu", "exited"}) =>
        /\ Len(books') >= Len(books)
        /\ SubSeq(Triples(books'), 1, Len(books)) = Triples(books)
        /\ lastOp' = "view_all" => result' = books
    ]_vars

\* a record has been added behind two loaded ones and the list displayed
C15_Witness ==
    /\ lastOp = "view_all" /\ Len(result) = 3
    /\ store.kind = "json" /\ Len(store.items) = 2
    /\ result[3].title = <<"U","n">>

\* C18: an Add request reports exactly one outcome: the success report
\* exactly when the record was appended, the duplicate signal exactly when
\* it was rejected.
C18_AddReportsOneOutcome ==
    [][lastOp' = "add" =>
        /\ Len(out') = 1
        /\ out' = <<"book_added">> <=> Len(books') = Len(books) + 1
        /\ out' = <<"duplicate">> <=> books' = books
    ]_vars

\* C19: Issue and Return change at most the status of the first record
\* whose identifier is the one given; length, order, titles, authors,
\* identifiers and the status of every other record stay as they were.
C19_IssueReturnFrame ==
    [][lastOp' \in {"issue", "return"} =>
        /\ Len(books') = Len(books)
        /\ Triples(books') = Triples(books)
        /\ \A k \in 1..Len(books) :
              books'[k].status # books[k].status =>
                 (Hits(books, arg') # {} /\ k = FirstHit(books, arg'))
    ]_vars

\* an Issue has changed the first of two records with the same identifier
\* and left the second one available
C19_Witness ==
    /\ lastOp = "issue" /\ out = <<"issued">>
    /\ Cardinality(Hits(books, arg)) = 2
    /\ \E k \in Hits(books, arg) : k # FirstHit(books, arg) /\ books[k].status = AVAILABLE

EqualsIgnoringCase(a, b) ==
    /\ Len(a) = Len(b)
    /\ \A j \in 1..Len(a) : LowerChar(a[j]) = LowerChar(b[j])

\* the status string handed to the constructor for entry d
GivenStatus(d) == IF d.status.t = "missing" THEN AVAILABLE ELSE d.status.s

\* C13: for every status string s the constructed record is issued when s
\* equals "issued" ignoring case and available in every other case, and the
\* construction does not fail.
C13_ConstructStatus ==
    lastOp = "load" =>
        /\ pc = "menu"
        /\ Len(books) = Len(store.items)
        /\ \A k \in 1..Len(books) :
              books[k].status =
                 IF EqualsIgnoringCase(GivenStatus(store.items[k].d), ISSUED)
                 THEN ISSUED ELSE AVAILABLE

\* a record has been constructed from the status "Issued"
C13_Witness ==
    /\ lastOp = "load" /\ Len(books) = 1
    /\ store.items[1].d.status = JStr(<<"I","s","s","u","e","d">>)
    /\ books[1].status = ISSUED

FieldOrEmpty(v) == IF v.t = "missing" THEN <<>> ELSE Strip(v.s)

\* C14: FromPersisted succeeds on an entry with any subset of the four keys
\* and any extra key: a missing title, author or identifier becomes the
\* empty string, a missing status becomes available, extra keys are ignored.
C14_FromPersistedDefaults ==
    lastOp = "load" =>
        /\ pc = "menu"
        /\ out = <<>>
        /\ Len(books) = Len(store.items)
        /\ \A k \in 1..Len(books) :
              LET d == store.items[k].d
              IN  /\ DOMAIN books[k] = {"title", "author", "isbn", "status"}
                  /\ books[k].title = FieldOrEmpty(d.title)
                  /\ books[k].author = FieldOrEmpty(d.author)
                  /\ books[k].isbn = FieldOrEmpty(d.isbn)
                  /\ d.status.t = "missing" => books[k].status = AVAILABLE

\* an entry with none of the four keys and an extra key has been loaded
C14_Witness ==
    /\ lastOp = "load" /\ Len(books) = 1
    /\ store.items[1].d = [NoDict EXCEPT !.extra = TRUE]
    /\ books[1] = [title |-> <<>>, author |-> <<>>, isbn |-> <<>>, status |-> AVAILABLE]

\* the steps in which get_menu_choice reads a line
MenuOps == {"menu_retry", "menu_choice", "view_all", "save"}

Interrupted(l) == l.kind \in {"eof", "interrupt"}

NotANumber(l) == l.kind = "decode_error" \/ (l.kind = "text" /\ int_raises(l.s))

\* C16 as claimed: the menu-choice reader returns only integers in 1..6 and
\* returns 6 whenever the input is not a number or is interrupted.
C16_MenuChoiceExitsOnMalformed ==
    [][lastOp' \in MenuOps =>
        /\ lastOp' # "menu_retry" => choice' \in 1..6
        /\ (Interrupted(line') \/ NotANumber(line')) =>
              (choice' = 6 /\ lastOp' = "save")
    ]_vars

\* C16 as amended: the menu-choice reader returns only integers in 1..6; it
\* returns 6 when the read is interrupted (end of input or keyboard
\* interrupt); on input that is not a number it returns nothing, prints the
\* invalid-input message and prompts again.
C16_MenuChoice ==
    [][lastOp' \in MenuOps =>
        /\ choice' \in 0..6
        /\ lastOp' # "menu_retry" => choice' \in 1..6
        /\ lastOp' = "menu_retry" => (choice' = choice /\ pc' = "menu")
        /\ Interrupted(line') => (choice' = 6 /\ lastOp' = "save")
        /\ NotANumber(line') =>
              (lastOp' = "menu_retry" /\ out' = <<"invalid_input">>)
    ]_vars

\* the line "a" has been answered with the invalid-input message and a new
\* prompt, after a handler had run
C16_Witness ==
    /\ lastOp = "menu_retry" /\ line = TextLine(<<"a">>)
    /\ out = <<"invalid_input">> /\ pc = "menu" /\ choice \in 1..5

C20_ExhaustedInputTerminates ==
    /\ (eof /\ pc \in PromptStates) ~> (pc = "exited" /\ saves = 1)
    /\ [](saves <= 1)
    /\ [][pc = "exited" => pc' = "exited"]_vars

\* the stream ended inside a handler and the run has ended with one Save
C20_Witness ==
    /\ eof /\ pc = "exited" /\ saves = 1 /\ lastOp = "save"
    /\ line = EOFLine /\ choice = 6 /\ books # <<>>

====
